---- MODULE Spec2Model ----
\* Transaction-assembly flows of common/src/lib.rs: swap_flow,
\* swap_instruction_flow, ultra_flow, trigger_flow and recurring_flow, with the
\* instruction decoder (Ci::into_instruction, TryFrom<InstructionJson>) and
\* the signing helper sign_versioned_tx.
EXTENDS Integers, Sequences, FiniteSets, TLC

VARIABLES
    flow,       \* which pub async fn is running
    pc,         \* position inside the flow
    result,     \* <<>> while running, <<"Ok">> or <<"Err", kind>> once returned
    log,        \* stages executed so far, in order, each with its outcome
    resp,       \* Option<SwapInstructionResponse>
    ix,         \* Vec<Instruction> of swap_instruction_flow
    alts,       \* Vec<AddressLookupTableAccount>
    ai,         \* number of lookup-table addresses already consumed by the for loop
    fetches,    \* rpc.get_account calls issued, per position of the address list
    blockhash,  \* Option<Hash> returned by rpc.get_latest_blockhash
    msg,        \* Option<v0::Message> returned by Message::try_compile
    wire,       \* Option<String>: the base64 transaction field of the service response
    tx,         \* Option<VersionedTransaction>
    submitted,  \* transactions handed to send_and_confirm_transaction / POST execute
    dj,         \* decoder unit: Option<InstructionJson> given to try_from
    dres        \* decoder unit: Option<Result<Instruction>>

vars == <<flow, pc, result, log, resp, ix, alts, ai, fetches, blockhash, msg, wire, tx,
          submitted, dj, dres>>

\* ───────────────────────────── bounds ─────────────────────────────
\* descriptors in one swap-instructions response, over all five slots
MaxIx == 2
\* entries of addressLookupTableAddresses in a response of the flow specification
MaxAlts == 1
\* entries of addressLookupTableAddresses in the resolver specification
MaxResolveAlts == 3
\* required signers of a pre-built transaction
MaxSigners == 2
\* instructions of a pre-built transaction
MaxPrebuiltIx == 1
\* accounts of an InstructionJson handed to the decoder unit
MaxAccounts == 2

\* ───────────────────────────── values ─────────────────────────────
None == <<>>
Some(x) == <<x>>
Ok(v) == [ok |-> TRUE, val |-> <<v>>, err |-> ""]
Err(e) == [ok |-> FALSE, val |-> <<>>, err |-> e]
Unwrap(r) == r.val[1]

SeqsUpTo(S, n) == UNION {[1..k -> S] : k \in 0..n}

RECURSIVE Concat(_)
Concat(ss) == IF ss = <<>> THEN <<>> ELSE Head(ss) \o Concat(Tail(ss))

\* base-58 text -> 32-byte key (keys are numbered); any other text is malformed
Base58 ==
    [s \in {"user", "other", "acc1", "acc2", "prog1", "prog2", "alt1", "alt2",
             "gone", "mint"} |->
        CASE s = "user" -> 1 [] s = "other" -> 2 [] s = "acc1" -> 3 [] s = "acc2" -> 4
          [] s = "prog1" -> 5 [] s = "prog2" -> 6 [] s = "alt1" -> 7 [] s = "alt2" -> 8
          [] s = "gone" -> 9 [] s = "mint" -> 10]

Pubkey_from_str(s) ==
    IF s \in DOMAIN Base58 THEN Ok(Base58[s]) ELSE Err("InvalidAddress")

\* the keypair loaded by keypair(&cfg)
kp == [pubkey |-> Base58["user"]]

\* ───────────────────────────── base64 ─────────────────────────────
B64Alphabet ==
    <<"A","B","C","D","E","F","G","H","I","J","K","L","M","N","O","P",
      "Q","R","S","T","U","V","W","X","Y","Z","a","b","c","d","e","f",
      "g","h","i","j","k","l","m","n","o","p","q","r","s","t","u","v",
      "w","x","y","z","0","1","2","3","4","5","6","7","8","9","+","/">>

B64Index(c) == (CHOOSE i \in 1..Len(B64Alphabet) : B64Alphabet[i] = c) - 1

B64IsSymbol(c) == \E i \in 1..Len(B64Alphabet) : B64Alphabet[i] = c

\* number of trailing '=' (at most two count as padding)
B64PadLen(s) ==
    IF Len(s) >= 1 /\ s[Len(s)] = "="
    THEN IF Len(s) >= 2 /\ s[Len(s) - 1] = "=" THEN 2 ELSE 1
    ELSE 0

RECURSIVE B64Bytes(_)
B64Bytes(b) ==
    IF Len(b) = 0 THEN <<>>
    ELSE IF Len(b) = 2
    THEN << (B64Index(b[1]) * 64 + B64Index(b[2])) \div 16 >>
    ELSE IF Len(b) = 3
    THEN LET v == B64Index(b[1]) * 4096 + B64Index(b[2]) * 64 + B64Index(b[3])
         IN  << v \div 1024, (v \div 4) % 256 >>
    ELSE LET v == B64Index(b[1]) * 262144 + B64Index(b[2]) * 4096
                  + B64Index(b[3]) * 64 + B64Index(b[4])
         IN  << v \div 65536, (v \div 256) % 256, v % 256 >> \o B64Bytes(SubSeq(b, 5, Len(b)))

base64_decode(s) ==
    LET pad  == B64PadLen(s)
        body == SubSeq(s, 1, Len(s) - pad)
        n    == Len(body)
    IN  IF \E i \in 1..n : ~B64IsSymbol(body[i]) THEN Err("InvalidEncoding")
        ELSE IF n % 4 = 1 THEN Err("InvalidEncoding")
        ELSE IF pad > 0 /\ Len(s) % 4 # 0 THEN Err("InvalidEncoding")
        ELSE IF n % 4 = 2 /\ B64Index(body[n]) % 16 # 0 THEN Err("InvalidEncoding")
        ELSE IF n % 4 = 3 /\ B64Index(body[n]) % 4 # 0 THEN Err("InvalidEncoding")
        ELSE Ok(B64Bytes(body))

\* ─────────────────────── instruction decoder ───────────────────────
AccountMeta_new(pk, is_signer) ==
    [pubkey |-> pk, is_signer |-> is_signer, is_writable |-> TRUE]

AccountMeta_new_readonly(pk, is_signer) ==
    [pubkey |-> pk, is_signer |-> is_signer, is_writable |-> FALSE]

\* the closure of the .map() in try_from: one AccountMetaJson -> Result<AccountMeta>
AccountMetaFlagsSwapped(a) ==
    LET pk == Pubkey_from_str(a.pubkey)
    IN  IF ~pk.ok THEN pk
        ELSE Ok([pubkey |-> Unwrap(pk), is_signer |-> a.isWritable,
                 is_writable |-> a.isSigner])

MapAccount(a) ==
    LET pk == Pubkey_from_str(a.pubkey)
    IN  IF ~pk.ok THEN pk
        ELSE IF a.isWritable
        THEN Ok(AccountMeta_new(Unwrap(pk), a.isSigner))
        ELSE Ok(AccountMeta_new_readonly(Unwrap(pk), a.isSigner))

\* .collect::<Result<Vec<_>, _>>(): the first Err, or every Ok value in order
CollectResults(rs) ==
    IF \E i \in 1..Len(rs) : ~rs[i].ok
    THEN rs[CHOOSE i \in 1..Len(rs) : ~rs[i].ok /\ \A k \in 1..(i - 1) : rs[k].ok]
    ELSE Ok([i \in 1..Len(rs) |-> Unwrap(rs[i])])

\* impl TryFrom<InstructionJson> for Instruction
TryFromInstructionJson(j) ==
    LET program_id == Pubkey_from_str(j.program_id)
        accounts   == CollectResults([i \in 1..Len(j.accounts) |-> MapAccount(j.accounts[i])])
        data       == base64_decode(j.data)
    IN  IF ~program_id.ok THEN program_id
        ELSE IF ~accounts.ok THEN accounts
        ELSE IF ~data.ok THEN data
        ELSE Ok([program_id |-> Unwrap(program_id),
                 accounts   |-> Unwrap(accounts),
                 data       |-> Unwrap(data)])

\* enum Ci { Json(InstructionJson), B64(String) }
CiJson(j) == [variant |-> "Json", json |-> <<j>>, b64 |-> <<>>]
CiB64(s) == [variant |-> "B64", json |-> <<>>, b64 |-> <<s>>]

IntoInstructionLegacyAsEmpty(ci) ==
    IF ci.variant = "Json" THEN TryFromInstructionJson(ci.json[1])
    ELSE Ok([program_id |-> 0, accounts |-> <<>>, data |-> <<>>])

\* Ci::into_instruction
into_instruction(ci) ==
    IF ci.variant = "Json" THEN TryFromInstructionJson(ci.json[1])
    ELSE Err("UnsupportedFormat")

\* ───────────────────────── decoder unit ─────────────────────────
AddressTexts == {"acc1", "other", "not-base58"}
ProgramTexts == {"prog1", "0OIl"}
DataTexts ==
    { <<>>, <<"A","Q","=","=">>, <<"A","Q","I","D">>, <<"A","Q","I","=">>,
      <<"!","Q","=","=">>, <<"A">>, <<"A","R","=","=">> }

AccountMetaJsons ==
    [pubkey : AddressTexts, isSigner : BOOLEAN, isWritable : BOOLEAN]

InstructionJsons ==
    [program_id : ProgramTexts, accounts : SeqsUpTo(AccountMetaJsons, MaxAccounts),
     data : DataTexts]

Idle ==
    /\ flow = "none" /\ pc = "unit" /\ result = None /\ log = <<>> /\ resp = None
    /\ ix = <<>> /\ alts = <<>> /\ ai = 0 /\ fetches = <<>> /\ blockhash = None
    /\ msg = None /\ wire = None /\ tx = None /\ submitted = <<>>

flowVars == <<flow, pc, result, log, resp, ix, alts, ai, fetches, blockhash, msg, wire,
              tx, submitted>>

InitDecode ==
    /\ Idle
    /\ dj \in {Some(j) : j \in InstructionJsons}
    /\ dres = None

\* let r: Result<Instruction> = j.try_into();
DecodeOne ==
    /\ dj # None /\ dres = None
    /\ dres' = Some(TryFromInstructionJson(dj[1]))
    /\ UNCHANGED <<dj, flowVars>>

NextDecode == DecodeOne

SpecDecode == InitDecode /\ [][NextDecode]_vars

\* C10: a Structured descriptor decodes to the same program, the same accounts
\* (address and both flags, same length, same order) and the payload bytes;
\* a malformed program id, account address or payload yields an error and no
\* instruction at all.
DecodeWellFormed(j) ==
    /\ j.program_id \in DOMAIN Base58
    /\ \A i \in 1..Len(j.accounts) : j.accounts[i].pubkey \in DOMAIN Base58
    /\ base64_decode(j.data).ok

C10_DecodePreservesAccounts ==
    dres # None =>
        LET j == dj[1]
            r == dres[1]
        IN  IF DecodeWellFormed(j)
            THEN /\ r.ok
                 /\ Unwrap(r).program_id = Base58[j.program_id]
                 /\ Len(Unwrap(r).accounts) = Len(j.accounts)
                 /\ \A i \in 1..Len(j.accounts) :
                        /\ Unwrap(r).accounts[i].pubkey = Base58[j.accounts[i].pubkey]
                        /\ Unwrap(r).accounts[i].is_signer = j.accounts[i].isSigner
                        /\ Unwrap(r).accounts[i].is_writable = j.accounts[i].isWritable
            ELSE ~r.ok /\ r.val = <<>>

\* a two-account descriptor with different flag pairs decoded, and a descriptor
\* whose second account is malformed rejected
C10_Witness ==
    /\ dres # None
    /\ Len(dj[1].accounts) = 2
    /\ dj[1].accounts[1].isSigner /\ ~dj[1].accounts[1].isWritable
    /\ ~dj[1].accounts[2].isSigner /\ dj[1].accounts[2].isWritable
    /\ dj[1].accounts[1].pubkey # dj[1].accounts[2].pubkey
    /\ dres[1].ok
    /\ Len(Unwrap(dres[1]).data) = 3

\* ─────────────────── service responses (inputs) ───────────────────
OptOf(S) == {None} \cup {Some(x) : x \in S}

\* two structured descriptors (the second names a co-signer), one malformed
\* structured one, one legacy blob
CiSwapUser ==
    CiJson([program_id |-> "prog1",
            accounts |-> << [pubkey |-> "user", isSigner |-> TRUE, isWritable |-> TRUE],
                            [pubkey |-> "acc1", isSigner |-> FALSE, isWritable |-> TRUE] >>,
            data |-> <<"A","Q","=","=">>])

CiCosigned ==
    CiJson([program_id |-> "prog2",
            accounts |-> << [pubkey |-> "acc2", isSigner |-> FALSE, isWritable |-> FALSE],
                            [pubkey |-> "other", isSigner |-> TRUE, isWritable |-> FALSE] >>,
            data |-> <<>>])

CiMalformed ==
    CiJson([program_id |-> "prog1",
            accounts |-> << [pubkey |-> "not-base58", isSigner |-> FALSE, isWritable |-> TRUE] >>,
            data |-> <<"A","Q","=","=">>])

CiLegacy == CiB64(<<"A","Q","=","=">>)

Descriptors == {CiSwapUser, CiCosigned, CiMalformed, CiLegacy}

OptLen(o) == IF o = None THEN 0 ELSE Len(o[1])

DescriptorCount(r) ==
    Len(r.token_ledger_instruction) + OptLen(r.compute_budget_instructions)
    + OptLen(r.setup_instructions) + Len(r.swap_instruction) + Len(r.cleanup_instruction)

\* struct SwapInstructionResponse, without the address list
InstructionSlots ==
    {r \in [token_ledger_instruction    : OptOf(Descriptors),
            compute_budget_instructions : OptOf(SeqsUpTo(Descriptors, MaxIx)),
            setup_instructions          : OptOf(SeqsUpTo(Descriptors, MaxIx)),
            swap_instruction            : OptOf(Descriptors),
            cleanup_instruction         : OptOf(Descriptors)] :
        DescriptorCount(r) <= MaxIx}

LookupTableTexts == {"alt1", "alt2", "gone", "mint", "not-base58"}

AddressLists == OptOf(SeqsUpTo(LookupTableTexts, MaxAlts))

SwapInstructionResponse(s, a) ==
    [token_ledger_instruction       |-> s.token_ledger_instruction,
     compute_budget_instructions    |-> s.compute_budget_instructions,
     setup_instructions             |-> s.setup_instructions,
     swap_instruction               |-> s.swap_instruction,
     cleanup_instruction            |-> s.cleanup_instruction,
     address_lookup_table_addresses |-> a]

\* ───────────────────── pre-built transactions ─────────────────────
SignerKeys == {Base58["user"], Base58["other"], Base58["acc1"]}

IsInjective(s) == \A i, k \in 1..Len(s) : s[i] = s[k] => i = k

OpaqueInstruction == [program_id |-> Base58["prog1"], accounts |-> <<>>, data |-> <<>>]

NoSignature == <<>>

\* a transaction built by the service: one placeholder signature per required signer
PrebuiltTxs ==
    {[message    |-> [signers |-> s,
                      instructions |-> [i \in 1..n |-> OpaqueInstruction],
                      address_table_lookups |-> <<>>,
                      recent_blockhash |-> "service"],
      signatures |-> [i \in 1..Len(s) |-> NoSignature]] :
        s \in {q \in SeqsUpTo(SignerKeys, MaxSigners) : Len(q) >= 1 /\ IsInjective(q)},
        n \in 0..MaxPrebuiltIx}

\* the text of a "transaction" field: empty, not base64, base64 of bytes that
\* are no transaction, or the encoding of a pre-built transaction
WireTexts ==
    {<<"">>, <<"%%%">>, <<"AAAA">>} \cup {<<"tx", t>> : t \in PrebuiltTxs}

\* deserialize(&decode(text)?)?
DecodeTransaction(w) ==
    IF w[1] = "%%%" THEN Err("InvalidEncoding")
    ELSE IF w[1] = "tx" THEN Ok(w[2])
    ELSE Err("Bincode")

\* ─────────────────────────── signing ───────────────────────────
\* kp.try_sign_message(&serialized): an ed25519 signature binds key and bytes
Signature(k, message) == <<k.pubkey, message>>

\* fn sign_versioned_tx(tx: &mut VersionedTransaction, kp: &Keypair)
sign_versioned_tx(t, k) ==
    [t EXCEPT !.signatures = << Signature(k, t.message) >>]

\* ─────────────────────── lookup-table resolver ───────────────────────
\* accounts held by the ledger node: two lookup tables, one token mint
LedgerAccounts ==
    [k \in {Base58["alt1"], Base58["alt2"], Base58["mint"]} |->
        IF k = Base58["alt1"] THEN [owner |-> "alt", addresses |-> <<Base58["acc1"]>>]
        ELSE IF k = Base58["alt2"] THEN [owner |-> "alt", addresses |-> <<Base58["acc2"]>>]
        ELSE [owner |-> "token", addresses |-> <<>>]]

\* rpc.get_account(&key)
rpc_get_account(key) ==
    IF key \in DOMAIN LedgerAccounts THEN Ok(LedgerAccounts[key]) ELSE Err("AccountNotFound")

\* AddressLookupTable::deserialize(&raw.data)
AddressLookupTable_deserialize(raw) ==
    IF raw.owner = "alt" THEN Ok([addresses |-> raw.addresses]) ELSE Err("InvalidAccountData")

ResolveOnePushingPlaceholder(key, acc) ==
    LET raw == rpc_get_account(key)
    IN  IF raw.ok /\ AddressLookupTable_deserialize(Unwrap(raw)).ok
        THEN Append(acc, [key |-> key,
                          addresses |-> Unwrap(AddressLookupTable_deserialize(Unwrap(raw))).addresses])
        ELSE Append(acc, [key |-> key, addresses |-> <<>>])

\* the body of the for loop once the key is parsed: alts after this address
ResolveOne(key, acc) ==
    LET raw == rpc_get_account(key)
    IN  IF raw.ok
        THEN LET table == AddressLookupTable_deserialize(Unwrap(raw))
             IN  IF table.ok
                 THEN Append(acc, [key |-> key, addresses |-> Unwrap(table).addresses])
                 ELSE acc
        ELSE acc

\* ───────────────────────── message compiler ─────────────────────────
RECURSIVE SortedSeq(_)
SortedSeq(S) ==
    IF S = {} THEN <<>>
    ELSE LET m == CHOOSE x \in S : \A y \in S : x <= y
         IN  <<m>> \o SortedSeq(S \ {m})

AccountsOf(ixs) == UNION {{ixs[i].accounts[k] : k \in 1..Len(ixs[i].accounts)} : i \in 1..Len(ixs)}

\* the signer part of the account keys of a compiled message: payer first,
\* then the other writable signers, then the read-only signers
RequiredSigners(payer, ixs) ==
    LET signerKeys == {a.pubkey : a \in {b \in AccountsOf(ixs) : b.is_signer}}
        writable   == {a.pubkey : a \in {b \in AccountsOf(ixs) : b.is_signer /\ b.is_writable}}
    IN  <<payer>> \o SortedSeq(writable \ {payer}) \o SortedSeq((signerKeys \ writable) \ {payer})

\* Message::try_compile(&payer, &ix, &alts, recent_blockhash)
Message_try_compile(payer, ixs, tables, hash) ==
    Ok([signers |-> RequiredSigners(payer, ixs),
        instructions |-> ixs,
        address_table_lookups |-> [i \in 1..Len(tables) |-> tables[i].key],
        recent_blockhash |-> hash])

\* VersionedTransaction::try_new(message, &[&kp])
VersionedTransaction_try_new(message, keypairs) ==
    IF Len(keypairs) > Len(message.signers) THEN Err("TooManySigners")
    ELSE IF Len(keypairs) < Len(message.signers) THEN Err("NotEnoughSigners")
    ELSE IF \E i \in 1..Len(message.signers) :
                \A k \in 1..Len(keypairs) : keypairs[k].pubkey # message.signers[i]
    THEN Err("KeypairPubkeyMismatch")
    ELSE Ok([message |-> message,
             signatures |-> [i \in 1..Len(message.signers) |->
                 Signature(keypairs[CHOOSE k \in 1..Len(keypairs) :
                               keypairs[k].pubkey = message.signers[i]], message)]])

\* ───────────────────────────── flows ─────────────────────────────
Flows == {"swap", "swap_instruction", "ultra", "trigger", "recurring"}

Init ==
    /\ flow \in Flows
    /\ pc = IF flow \in {"swap", "swap_instruction"} THEN "quote" ELSE "order"
    /\ result = None /\ log = <<>> /\ resp = None /\ ix = <<>> /\ alts = <<>>
    /\ ai = 0 /\ fetches = <<>> /\ blockhash = None /\ msg = None /\ wire = None
    /\ tx = None /\ submitted = <<>>
    /\ dj = None /\ dres = None

HttpOutcomes == {Ok("body"), Err("Http")}

StepIgnoringFailure(stage, r, next) ==
    /\ log' = Append(log, [stage |-> stage, ok |-> r.ok])
    /\ pc' = next
    /\ result' = IF next = "done" THEN <<"Ok">> ELSE result

\* one fallible statement `let x = stage()?;`: on Err the function returns it,
\* on Ok control moves to the next statement (Ok(()) after the last one)
Step(stage, r, next) ==
    /\ log' = Append(log, [stage |-> stage, ok |-> r.ok])
    /\ pc' = IF r.ok THEN next ELSE "done"
    /\ result' = IF ~r.ok THEN <<"Err", r.err>>
                 ELSE IF next = "done" THEN <<"Ok">> ELSE result

\* ── swap_flow ──
\* http.get(&quote_url)...send().await?.json().await?
SwapQuote ==
    /\ flow = "swap" /\ pc = "quote"
    /\ \E r \in HttpOutcomes : Step("quote", r, "build")
    /\ UNCHANGED <<flow, resp, ix, alts, ai, fetches, blockhash, msg, wire, tx, submitted, dj, dres>>

\* http.post(".../swap")...json().await?  -> SwapResponse
SwapBuild ==
    /\ flow = "swap" /\ pc = "build"
    /\ \/ /\ Step("build", Err("Http"), "decode")
          /\ UNCHANGED wire
       \/ \E w \in WireTexts :
            /\ Step("build", Ok(w), "decode")
            /\ wire' = Some(Some(w))
    /\ UNCHANGED <<flow, resp, ix, alts, ai, fetches, blockhash, msg, tx, submitted, dj, dres>>

\* let mut tx: VersionedTransaction = deserialize(&decode(text)?)?;
DecodeStep ==
    /\ flow \in {"swap", "ultra", "trigger", "recurring"} /\ pc = "decode"
    /\ wire # None /\ wire[1] # None
    /\ LET r == DecodeTransaction(wire[1][1])
       IN  /\ Step("decode", r, "sign")
           /\ tx' = IF r.ok THEN Some(Unwrap(r)) ELSE tx
    /\ UNCHANGED <<flow, resp, ix, alts, ai, fetches, blockhash, msg, wire, submitted, dj, dres>>

\* sign_versioned_tx(&mut tx, &kp);
SignStep ==
    /\ flow \in {"swap", "ultra", "trigger", "recurring"} /\ pc = "sign"
    /\ tx # None
    /\ tx' = Some(sign_versioned_tx(tx[1], kp))
    /\ Step("sign", Ok("signed"), "submit")
    /\ UNCHANGED <<flow, resp, ix, alts, ai, fetches, blockhash, msg, wire, submitted, dj, dres>>

\* rpc.send_and_confirm_transaction(&tx)?
SendAndConfirm ==
    /\ flow \in {"swap", "swap_instruction"} /\ pc = "submit"
    /\ tx # None
    /\ submitted' = Append(submitted, tx[1])
    /\ \E r \in {Ok("signature"), Err("Rejected"), Err("Timeout")} : Step("submit", r, "done")
    /\ UNCHANGED <<flow, resp, ix, alts, ai, fetches, blockhash, msg, wire, tx, dj, dres>>

\* ── swap_instruction_flow ──
SiQuote ==
    /\ flow = "swap_instruction" /\ pc = "quote"
    /\ \E r \in HttpOutcomes : Step("quote", r, "build")
    /\ UNCHANGED <<flow, resp, ix, alts, ai, fetches, blockhash, msg, wire, tx, submitted, dj, dres>>

\* http.post(".../swap-instructions")...json().await? -> SwapInstructionResponse
SiBuild ==
    /\ flow = "swap_instruction" /\ pc = "build"
    /\ \/ /\ Step("build", Err("Http"), "decode")
          /\ UNCHANGED resp
       \/ \E s \in InstructionSlots, a \in AddressLists :
            /\ Step("build", Ok("body"), "decode")
            /\ resp' = Some(SwapInstructionResponse(s, a))
    /\ UNCHANGED <<flow, ix, alts, ai, fetches, blockhash, msg, wire, tx, submitted, dj, dres>>

OptSeq(o) == IF o = None THEN <<>> ELSE o[1]

DescriptorOrderSwapBeforeSetup(r) ==
    r.token_ledger_instruction \o OptSeq(r.compute_budget_instructions)
    \o r.swap_instruction \o OptSeq(r.setup_instructions) \o r.cleanup_instruction

\* the order in which the five `if let Some(..)` statements visit the descriptors
DescriptorOrder(r) ==
    r.token_ledger_instruction \o OptSeq(r.compute_budget_instructions)
    \o OptSeq(r.setup_instructions) \o r.swap_instruction \o r.cleanup_instruction

\* ix after the five statements, or the first error met
DecodeAll(r) ==
    LET ds == DescriptorOrder(r)
    IN  CollectResults([i \in 1..Len(ds) |-> into_instruction(ds[i])])

\* decode every Instruction, then `if ix.is_empty() { bail!(..) }`
SiDecode ==
    /\ flow = "swap_instruction" /\ pc = "decode"
    /\ resp # None
    /\ LET d == DecodeAll(resp[1])
           r == IF ~d.ok THEN d
                ELSE IF Unwrap(d) = <<>> THEN Err("EmptyInstructionSet")
                ELSE d
       IN  /\ Step("decode", r, "resolve")
           /\ ix' = IF d.ok THEN Unwrap(d) ELSE ix
    /\ UNCHANGED <<flow, resp, alts, ai, fetches, blockhash, msg, wire, tx, submitted, dj, dres>>

Addresses == OptSeq(resp[1].address_lookup_table_addresses)

SiResolveStepSkippingMalformed ==
    /\ flow = "swap_instruction" /\ pc = "resolve"
    /\ resp # None /\ ai < Len(Addresses)
    /\ LET key == Pubkey_from_str(Addresses[ai + 1])
       IN  /\ fetches' = IF key.ok THEN Append(fetches, ai + 1) ELSE fetches
           /\ alts' = IF key.ok THEN ResolveOne(Unwrap(key), alts) ELSE alts
           /\ ai' = ai + 1
           /\ UNCHANGED <<pc, result, log>>
    /\ UNCHANGED <<flow, resp, ix, blockhash, msg, wire, tx, submitted, dj, dres>>

\* one iteration of `for addr in addrs`
SiResolveStep ==
    /\ flow = "swap_instruction" /\ pc = "resolve"
    /\ resp # None /\ ai < Len(Addresses)
    /\ LET key == Pubkey_from_str(Addresses[ai + 1])
       IN  IF ~key.ok
           THEN /\ Step("resolve", key, "resolve")
                /\ UNCHANGED <<alts, ai, fetches>>
           ELSE /\ fetches' = Append(fetches, ai + 1)
                /\ alts' = ResolveOne(Unwrap(key), alts)
                /\ ai' = ai + 1
                /\ UNCHANGED <<pc, result, log>>
    /\ UNCHANGED <<flow, resp, ix, blockhash, msg, wire, tx, submitted, dj, dres>>

\* the loop is over (or there was no address list)
SiResolveDone ==
    /\ flow = "swap_instruction" /\ pc = "resolve"
    /\ resp # None /\ ai = Len(Addresses)
    /\ Step("resolve", Ok("alts"), "blockhash")
    /\ UNCHANGED <<flow, resp, ix, alts, ai, fetches, blockhash, msg, wire, tx, submitted, dj, dres>>

\* let recent_blockhash = rpc.get_latest_blockhash()?;
SiBlockhash ==
    /\ flow = "swap_instruction" /\ pc = "blockhash"
    /\ \E r \in {Ok("hash"), Err("Rpc")} :
         /\ Step("blockhash", r, "compile")
         /\ blockhash' = IF r.ok THEN Some(Unwrap(r)) ELSE blockhash
    /\ UNCHANGED <<flow, resp, ix, alts, ai, fetches, msg, wire, tx, submitted, dj, dres>>

\* let msg = Message::try_compile(&payer, &ix, &alts, recent_blockhash)?;
SiCompile ==
    /\ flow = "swap_instruction" /\ pc = "compile"
    /\ blockhash # None
    /\ LET r == Message_try_compile(kp.pubkey, ix, alts, blockhash[1])
       IN  /\ Step("compile", r, "sign")
           /\ msg' = IF r.ok THEN Some(Unwrap(r)) ELSE msg
    /\ UNCHANGED <<flow, resp, ix, alts, ai, fetches, blockhash, wire, tx, submitted, dj, dres>>

\* let tx = VersionedTransaction::try_new(versioned, &[&kp])?;
SiSign ==
    /\ flow = "swap_instruction" /\ pc = "sign"
    /\ msg # None
    /\ LET r == VersionedTransaction_try_new(msg[1], <<kp>>)
       IN  /\ Step("sign", r, "submit")
           /\ tx' = IF r.ok THEN Some(Unwrap(r)) ELSE tx
    /\ UNCHANGED <<flow, resp, ix, alts, ai, fetches, blockhash, msg, wire, submitted, dj, dres>>

\* ── ultra_flow ──
\* http.get(&order_url)...json().await? -> UltraOrderResponse
UltraOrder ==
    /\ flow = "ultra" /\ pc = "order"
    /\ \/ /\ Step("order", Err("Http"), "decode")
          /\ UNCHANGED wire
       \/ \E w \in WireTexts :
            /\ Step("order", Ok(w), "decode")
            /\ wire' = Some(Some(w))
    /\ UNCHANGED <<flow, resp, ix, alts, ai, fetches, blockhash, msg, tx, submitted, dj, dres>>

\* http.post(".../execute").json(&exec_body).send().await?.json().await?
Execute ==
    /\ flow \in {"ultra", "trigger", "recurring"} /\ pc = "submit"
    /\ tx # None
    /\ submitted' = Append(submitted, tx[1])
    /\ \E r \in HttpOutcomes : Step("submit", r, "done")
    /\ UNCHANGED <<flow, resp, ix, alts, ai, fetches, blockhash, msg, wire, tx, dj, dres>>

\* ── trigger_flow, recurring_flow ──
\* http.post(".../createOrder")...json().await? -> Create{Trigger,Recurring}Response
CreateOrder ==
    /\ flow \in {"trigger", "recurring"} /\ pc = "order"
    /\ \/ /\ Step("order", Err("Http"), "check")
          /\ UNCHANGED wire
       \/ \E w \in OptOf(WireTexts) :
            /\ Step("order", Ok("body"), "check")
            /\ wire' = Some(w)
    /\ UNCHANGED <<flow, resp, ix, alts, ai, fetches, blockhash, msg, tx, submitted, dj, dres>>

\* if create_resp.transaction.as_deref().unwrap_or("").is_empty() { eprintln!(..); return Ok(()); }
CheckTransaction ==
    /\ flow \in {"trigger", "recurring"} /\ pc = "check"
    /\ wire # None
    /\ IF wire[1] = None \/ wire[1] = Some(<<"">>)
       THEN pc' = "done" /\ result' = <<"Ok">>
       ELSE pc' = "decode" /\ UNCHANGED result
    /\ UNCHANGED <<flow, log, resp, ix, alts, ai, fetches, blockhash, msg, wire, tx, submitted,
                   dj, dres>>

Next ==
    \/ SwapQuote \/ SwapBuild \/ DecodeStep \/ SignStep \/ SendAndConfirm
    \/ SiQuote \/ SiBuild \/ SiDecode \/ SiResolveStep \/ SiResolveDone
    \/ SiBlockhash \/ SiCompile \/ SiSign
    \/ UltraOrder \/ Execute \/ CreateOrder \/ CheckTransaction

Spec == Init /\ [][Next]_vars

\* ── the resolver loop of swap_instruction_flow on longer address lists ──
\* the flow just after `if ix.is_empty()`: the response carried the swap
\* instruction alone and any list of lookup-table addresses
InitResolve ==
    /\ flow = "swap_instruction" /\ pc = "resolve" /\ result = None
    /\ log = << [stage |-> "quote", ok |-> TRUE], [stage |-> "build", ok |-> TRUE],
                [stage |-> "decode", ok |-> TRUE] >>
    /\ \E a \in OptOf(SeqsUpTo(LookupTableTexts, MaxResolveAlts)) :
         resp = Some(SwapInstructionResponse(
                    [token_ledger_instruction |-> None, compute_budget_instructions |-> None,
                     setup_instructions |-> None, swap_instruction |-> Some(CiSwapUser),
                     cleanup_instruction |-> None], a))
    /\ ix = Unwrap(DecodeAll(resp[1]))
    /\ alts = <<>> /\ ai = 0 /\ fetches = <<>> /\ blockhash = None /\ msg = None
    /\ wire = None /\ tx = None /\ submitted = <<>> /\ dj = None /\ dres = None

NextResolve ==
    \/ SiResolveStep \/ SiResolveDone \/ SiBlockhash \/ SiCompile \/ SiSign
    \/ SendAndConfirm

SpecResolve == InitResolve /\ [][NextResolve]_vars

\* ───────────────────────────── claims ─────────────────────────────
Running == flow = "swap_instruction" /\ resp # None

PastDecode == pc \in {"resolve", "blockhash", "compile", "sign", "submit"}

Failed == result # None /\ result[1] = "Err"

\* C1: in swap_instruction_flow a response without the swap instruction, or
\* with no descriptor at all, is rejected at decoding: the flow ends in an
\* error and never reaches lookup-table resolution, compilation or submission.
C1_MissingSwapRejected ==
    (Running /\ (resp[1].swap_instruction = None \/ DescriptorCount(resp[1]) = 0)) =>
        /\ ~PastDecode
        /\ msg = None /\ tx = None /\ submitted = <<>>
        /\ fetches = <<>>
        /\ (pc = "done" => Failed)

SlotDescriptors(r) ==
    {r.token_ledger_instruction[i] : i \in 1..Len(r.token_ledger_instruction)}
    \cup {OptSeq(r.compute_budget_instructions)[i] : i \in 1..OptLen(r.compute_budget_instructions)}
    \cup {OptSeq(r.setup_instructions)[i] : i \in 1..OptLen(r.setup_instructions)}
    \cup {r.swap_instruction[i] : i \in 1..Len(r.swap_instruction)}
    \cup {r.cleanup_instruction[i] : i \in 1..Len(r.cleanup_instruction)}

HasLegacy(r) == \E d \in SlotDescriptors(r) : d.variant = "B64"

AllStructuredDecode(r) ==
    \A d \in SlotDescriptors(r) : d.variant = "Json" => TryFromInstructionJson(d.json[1]).ok

\* C2: a response holding a LegacyEncoded descriptor in any of the five slots
\* makes swap_instruction_flow return an error (UnsupportedFormat unless a
\* malformed structured descriptor is met first); no instruction list, message
\* or transaction is produced from it and nothing is submitted.
C2_LegacyAlwaysFails ==
    (Running /\ HasLegacy(resp[1])) =>
        /\ ~PastDecode
        /\ ix = <<>> /\ msg = None /\ tx = None /\ submitted = <<>>
        /\ (pc = "done" => Failed)
        /\ (pc = "done" /\ AllStructuredDecode(resp[1]) =>
                result = <<"Err", "UnsupportedFormat">>)

\* a legacy cleanup descriptor after a well-formed swap instruction was rejected
C2_Witness ==
    /\ Running /\ pc = "done"
    /\ resp[1].swap_instruction = Some(CiSwapUser)
    /\ resp[1].cleanup_instruction = Some(CiLegacy)
    /\ result = <<"Err", "UnsupportedFormat">>

DecodedOpt(o) == [i \in 1..Len(o) |-> Unwrap(TryFromInstructionJson(o[i].json[1]))]

\* the list the spec describes: ledger, compute budget, setup, swap, cleanup
ExpectedInstructions(r) ==
    Concat(<< DecodedOpt(r.token_ledger_instruction),
              DecodedOpt(OptSeq(r.compute_budget_instructions)),
              DecodedOpt(OptSeq(r.setup_instructions)),
              DecodedOpt(r.swap_instruction),
              DecodedOpt(r.cleanup_instruction) >>)

\* C3: when every descriptor decodes, the instruction list handed to the
\* compiler is the token-ledger instruction, the compute-budget instructions,
\* the setup instructions, the swap instruction and the cleanup instruction,
\* each slot contributing what it holds, in that order, nothing dropped,
\* duplicated or reordered.
C3_InstructionOrder ==
    (Running /\ (PastDecode \/ msg # None)) =>
        /\ ix = ExpectedInstructions(resp[1])
        /\ (msg # None => msg[1].instructions = ExpectedInstructions(resp[1]))

\* a setup instruction and a different swap instruction were compiled
C3_Witness ==
    /\ Running /\ msg # None
    /\ resp[1].setup_instructions = Some(<<CiCosigned>>)
    /\ resp[1].swap_instruction = Some(CiSwapUser)
    /\ Len(msg[1].instructions) = 2
    /\ msg[1].instructions[1] # msg[1].instructions[2]

IsTable(text) ==
    /\ text \in DOMAIN Base58
    /\ Base58[text] \in DOMAIN LedgerAccounts
    /\ LedgerAccounts[Base58[text]].owner = "alt"

RECURSIVE ResolvedTables(_)
ResolvedTables(texts) ==
    IF texts = <<>> THEN <<>>
    ELSE (IF IsTable(Head(texts))
          THEN << [key |-> Base58[Head(texts)],
                   addresses |-> LedgerAccounts[Base58[Head(texts)]].addresses] >>
          ELSE <<>>) \o ResolvedTables(Tail(texts))

\* C4: resolution is best-effort per address: after the loop has consumed n
\* addresses it has fetched each of them exactly once, in order, and alts
\* holds exactly the tables whose fetch and parse succeeded, in input order;
\* a failed fetch or parse never ends the flow, so a list of well-formed
\* addresses is always consumed to its end.
C4_BestEffortResolution ==
    Running =>
        /\ fetches = [i \in 1..ai |-> i]
        /\ alts = ResolvedTables(SubSeq(Addresses, 1, ai))
        /\ (pc \in {"blockhash", "compile", "sign", "submit"} \/ msg # None =>
                ai = Len(Addresses))
        /\ ((\A i \in 1..Len(Addresses) : Addresses[i] \in DOMAIN Base58) =>
                \A i \in 1..Len(log) : log[i].stage = "resolve" => log[i].ok)

\* three addresses, the fetch of the second failed: the first and third tables
C4_Witness ==
    /\ Running /\ pc = "blockhash"
    /\ Addresses = <<"alt1", "gone", "alt2">>
    /\ Len(fetches) = 3
    /\ alts = << [key |-> Base58["alt1"], addresses |-> <<Base58["acc1"]>>],
                 [key |-> Base58["alt2"], addresses |-> <<Base58["acc2"]>>] >>

\* the stages a flow runs before it submits
Pipeline(f) ==
    IF f = "swap" THEN <<"quote", "build", "decode", "sign">>
    ELSE IF f = "swap_instruction"
    THEN <<"quote", "build", "decode", "resolve", "blockhash", "compile", "sign">>
    ELSE <<"order", "decode", "sign">>

\* C5: every flow is fail-stop with submission last: at most one submission,
\* issued only after every earlier stage of the flow succeeded, with a
\* transaction carrying the run's keypair's signature over its message;
\* nothing runs after a failed stage and nothing runs after the submission.
C5_FailStopSubmissionLast ==
    /\ Len(submitted) <= 1
    /\ \A i \in 1..(Len(log) - 1) : log[i].ok /\ log[i].stage # "submit"
    /\ Len(submitted) = Cardinality({i \in 1..Len(log) : log[i].stage = "submit"})
    /\ submitted # <<>> =>
        /\ pc = "done"
        /\ [i \in 1..(Len(log) - 1) |-> log[i].stage] = Pipeline(flow)
        /\ \E k \in 1..Len(submitted[1].signatures) :
              submitted[1].signatures[k] = Signature(kp, submitted[1].message)
    /\ (Len(log) > 0 /\ ~log[Len(log)].ok) => (pc = "done" /\ Failed)

\* a swap-instruction run went through all its stages, submitted once and
\* returned Ok
C5_Witness ==
    /\ flow = "swap_instruction" /\ pc = "done"
    /\ Len(submitted) = 1 /\ result = <<"Ok">>
    /\ Len(log) = 8

SignerIndex(message, key) ==
    CHOOSE i \in 1..Len(message.signers) : message.signers[i] = key

IsRequiredSigner(message, key) ==
    \E i \in 1..Len(message.signers) : message.signers[i] = key

Signed == \E i \in 1..Len(log) : log[i].stage = "sign" /\ log[i].ok

\* C6: after signing, the signature list has one entry per required signer of
\* the message and the keypair's signature sits at the keypair's index among
\* the required signers.
C6_SignatureAtSignerIndex ==
    (tx # None /\ Signed /\ IsRequiredSigner(tx[1].message, kp.pubkey)) =>
        /\ Len(tx[1].signatures) = Len(tx[1].message.signers)
        /\ tx[1].signatures[SignerIndex(tx[1].message, kp.pubkey)]
               = Signature(kp, tx[1].message)

\* C7: a transaction whose message does not require the keypair is never
\* signed with it: its signature list stays as received, the flow does not go
\* on to submission, and it ends in an error.
C7_UnknownSignerRejected ==
    (tx # None /\ ~IsRequiredSigner(tx[1].message, kp.pubkey)) =>
        /\ \A i \in 1..Len(tx[1].signatures) : tx[1].signatures[i] = NoSignature
        /\ pc # "submit"
        /\ submitted = <<>>
        /\ (pc = "done" => Failed)

\* C8: every submitted transaction holds at least one instruction.
C8_SubmittedHasInstruction ==
    \A i \in 1..Len(submitted) : Len(submitted[i].message.instructions) >= 1

NoTransactionInResponse ==
    /\ flow \in {"trigger", "recurring"}
    /\ wire # None
    /\ (wire[1] = None \/ wire[1] = Some(<<"">>))

\* C9: a flow in which a stage failed, or whose create-order response carried
\* no transaction, returns an error and never Ok.
C9_FailureSurfaced ==
    (pc = "done" /\ ((\E i \in 1..Len(log) : ~log[i].ok) \/ NoTransactionInResponse)) =>
        Failed

Malformed(i) == Addresses[i] \notin DOMAIN Base58

FirstMalformed == CHOOSE i \in 1..Len(Addresses) : Malformed(i) /\ \A k \in 1..(i - 1) : ~Malformed(k)

Decoded == \E i \in 1..Len(log) : log[i].stage = "decode" /\ log[i].ok

\* C11: a lookup-table address that is no valid public key is not skipped: the
\* flow ends with an error at the first such address. The addresses before it
\* were each fetched once and their tables kept, no address after it is
\* fetched, and no blockhash is requested, no message compiled, no transaction
\* signed and nothing submitted.
C11_MalformedAddressAborts ==
    (Running /\ Decoded /\ \E i \in 1..Len(Addresses) : Malformed(i)) =>
        /\ pc \in {"resolve", "done"}
        /\ ai < FirstMalformed
        /\ \A k \in 1..Len(fetches) : fetches[k] < FirstMalformed
        /\ blockhash = None /\ msg = None /\ tx = None /\ submitted = <<>>
        /\ \A k \in 1..Len(log) : log[k].stage \notin {"blockhash", "compile", "sign", "submit"}
        /\ pc = "done" =>
            /\ result = <<"Err", "InvalidAddress">>
            /\ ai = FirstMalformed - 1
            /\ fetches = [k \in 1..(FirstMalformed - 1) |-> k]
            /\ alts = ResolvedTables(SubSeq(Addresses, 1, FirstMalformed - 1))

\* the second of three addresses is malformed: the first table was resolved,
\* the third address was never fetched and the flow returned the error
C11_Witness ==
    /\ Running /\ pc = "done"
    /\ Addresses = <<"alt1", "not-base58", "alt2">>
    /\ fetches = <<1>>
    /\ alts = << [key |-> Base58["alt1"], addresses |-> <<Base58["acc1"]>>] >>
    /\ result = <<"Err", "InvalidAddress">>

====
